---- MODULE Spec2Model ----
(***************************************************************************)
(* A model of the XenQnt quantizer module (src/src/XenQnt.cpp): the scale, *)
(* the staged scale, the two tuning tables built by updateTuning, the three*)
(* mapping algorithms, and process() with its commit checkpoint, scale     *)
(* learner, light stage and pitch stage.                                   *)
(*                                                                         *)
(* Numbers.  Cents are integers.  A voltage is kept in units of 1/1200 V   *)
(* (one cent of a 1 V/octave signal), so that cents / 1200 is the identity *)
(* on the stored number and MIN_VOLT, MAX_VOLT are multiplied by 1200      *)
(* where they are compared.  The arithmetic is exact: the rounding of the  *)
(* C++ doubles is not modelled.  Time is kept in units of 1/60000 s, in    *)
(* which 1/FRAME_RATE and 1/1000 s are both whole numbers.                 *)
(* Brightness is kept in tenths.                                           *)
(***************************************************************************)
EXTENDS Integers, Sequences, FiniteSets, TLC

(***************************************************************************)
(* Program constants                                                       *)
(***************************************************************************)
MATRIX_SIZE == 36
FRAME_RATE == 60
MIN_VOLT == -4
MAX_VOLT == 6
\* the divisor of "cents / 1200": cents per volt
CentsPerVolt == 1200
\* the scan cadence of process(): 1.f / 1000
ScanRate == 1000
\* model time units per second: 1.f / FRAME_RATE and 1.f / 1000 are whole
TicksPerSecond == FRAME_RATE * ScanRate

MinVoltC == MIN_VOLT * CentsPerVolt
MaxVoltC == MAX_VOLT * CentsPerVolt

TWELVE_EDO == "12-EDO"

ScaleStep(c, e) == [cents |-> c, enabled |-> e]
TuningStep(v, i) == [voltage |-> v, scaleIndex |-> i]

MappingMode == {"proximity", "proportional", "twelveEdoInput"}

(***************************************************************************)
(* Helpers                                                                 *)
(***************************************************************************)
\* C round(): the nearest integer to a / b (b > 0), halves away from zero
Round(a, b) ==
    IF a >= 0 THEN (2 * a + b) \div (2 * b)
    ELSE -((2 * (-a) + b) \div (2 * b))

\* scale.back().cents
Period(sc) == sc[Len(sc)].cents

(***************************************************************************)
(* updateTuning                                                            *)
(***************************************************************************)
\* One pass of the forward for-loop at periodOffset off: the number of
\* steps pushed back before the first voltage above MAX_VOLT breaks out
\* (all of them when none does)
ForwardCount(sc, off) ==
    LET over == {i \in 1..Len(sc) : off + sc[i].cents > MaxVoltC}
    IN  IF over = {} THEN Len(sc)
        ELSE (CHOOSE i \in over : \A j \in over : i <= j) - 1

\* The while (!done) loop of the forward walk, from periodOffset off on
RECURSIVE ForwardWalk(_, _)
ForwardWalk(sc, off) ==
    LET k == ForwardCount(sc, off)
        out == [i \in 1..k |-> TuningStep(off + sc[i].cents, i - 1)]
    IN  IF k < Len(sc) THEN out
        ELSE out \o ForwardWalk(sc, off + Period(sc))

\* One pass of the backward for-loop at periodOffset off: the position of
\* the step whose voltage below MIN_VOLT breaks out, 0 when none does.  The
\* steps after it were pushed to the front.
BackwardBreak(sc, off) ==
    LET under == {i \in 1..Len(sc) : off + (sc[i].cents - Period(sc)) < MinVoltC}
    IN  IF under = {} THEN 0
        ELSE CHOOSE i \in under : \A j \in under : i >= j

\* A faulty variant of the backward walk: the index is the distance from
\* rbegin(), the position of the step counted from the back
RECURSIVE BackwardWalkCountsFromBack(_, _)
BackwardWalkCountsFromBack(sc, off) ==
    LET f == BackwardBreak(sc, off)
        out == [i \in 1..(Len(sc) - f) |->
                   TuningStep(off + (sc[i + f].cents - Period(sc)),
                              Len(sc) - (i + f))]
    IN  IF f > 0 THEN out
        ELSE BackwardWalkCountsFromBack(sc, off - Period(sc)) \o out

\* The while (!done) loop of the backward walk, from periodOffset off on,
\* in table order
RECURSIVE BackwardWalk(_, _)
BackwardWalk(sc, off) ==
    LET f == BackwardBreak(sc, off)
        out == [i \in 1..(Len(sc) - f) |->
                   TuningStep(off + (sc[i + f].cents - Period(sc)), i + f - 1)]
    IN  IF f > 0 THEN out
        ELSE BackwardWalk(sc, off - Period(sc)) \o out

\* Whether the two while (!done) loops of updateTuning come to an end.  A
\* pass that does not break at offset 0 is followed by a pass that does only
\* when the period moves the offset towards the bound.  On an empty scale
\* scale.back() is undefined and no pass ever sets done.
Terminates(sc) ==
    /\ Len(sc) > 0
    /\ \/ Period(sc) > 0
       \/ /\ ForwardCount(sc, 0) < Len(sc)
          /\ BackwardBreak(sc, 0) > 0

IsEnabledStep(sc, t) == sc[t.scaleIndex + 1].enabled

\* The values updateTuning leaves in pitches, enabledPitches,
\* numNegativeVoltages, numEnabledNegativeVoltages and numEnabledSteps
updateTuning(sc) ==
    LET fwd == ForwardWalk(sc, 0)
        bwd == BackwardWalk(sc, 0)
        voltages == bwd \o fwd
    IN  [pitches |-> voltages,
         enabledPitches |-> SelectSeq(voltages, LAMBDA t : IsEnabledStep(sc, t)),
         numNegativeVoltages |-> Len(bwd) - 1,
         numEnabledNegativeVoltages |->
             Cardinality({i \in 1..Len(bwd) :
                             IsEnabledStep(sc, bwd[i]) /\ bwd[i].voltage < 0}),
         numEnabledSteps |-> Cardinality({i \in 1..Len(sc) : sc[i].enabled})]

(***************************************************************************)
(* The mapping algorithms.  s is the module: a record of its fields.       *)
(***************************************************************************)
\* the sentinel returned when the table looked at is empty
RootStep(s) == TuningStep(0, Len(s.scale) - 1)

\* std::lower_bound with comp = step.voltage < voltage, as the bisection it
\* is: the 0-based position it ends at, Len(tab) for end()
RECURSIVE LowerBound(_, _, _, _)
LowerBound(tab, v, first, len) ==
    IF len <= 0 THEN first
    ELSE LET half == len \div 2
             middle == first + half
         IN  IF tab[middle + 1].voltage < v
             THEN LowerBound(tab, v, middle + 1, len - half - 1)
             ELSE LowerBound(tab, v, first, half)

\* faulty variant: a tie goes to the lower neighbour
getPitchByProximityTieDown(s, v, enabled) ==
    LET tab == IF enabled THEN s.enabledPitches ELSE s.pitches
    IN  IF tab = <<>> THEN RootStep(s)
        ELSE LET ceil == LowerBound(tab, v, 0, Len(tab))
             IN  IF ceil = 0 THEN tab[1]
                 ELSE IF ceil = Len(tab) THEN tab[Len(tab)]
                 ELSE IF (tab[ceil + 1].voltage - v) >= (v - tab[ceil].voltage)
                      THEN tab[ceil]
                      ELSE tab[ceil + 1]

getPitchByProximity(s, v, enabled) ==
    LET tab == IF enabled THEN s.enabledPitches ELSE s.pitches
    IN  IF tab = <<>> THEN RootStep(s)
        ELSE LET ceil == LowerBound(tab, v, 0, Len(tab))
             IN  IF ceil = 0 THEN tab[1]
                 ELSE IF ceil = Len(tab) THEN tab[Len(tab)]
                 ELSE IF (tab[ceil + 1].voltage - v) > (v - tab[ceil].voltage)
                      THEN tab[ceil]
                      ELSE tab[ceil + 1]

\* faulty variant: an index past the end wraps to the first entry
getPitchProportionalWraps(s, v, enabled) ==
    LET tab == IF enabled THEN s.enabledPitches ELSE s.pitches
        pitchIndex ==
            IF enabled
            THEN s.numEnabledNegativeVoltages
                 + Round(v * s.numEnabledSteps, Period(s.scale))
            ELSE s.numNegativeVoltages + Round(v * Len(s.scale), Period(s.scale))
    IN  IF tab = <<>> THEN RootStep(s)
        ELSE IF pitchIndex < 0 THEN tab[1]
        ELSE IF pitchIndex >= Len(tab) THEN tab[1]
        ELSE tab[pitchIndex + 1]

\* round(v / period * n) with v and the period in the same unit
getPitchProportional(s, v, enabled) ==
    LET tab == IF enabled THEN s.enabledPitches ELSE s.pitches
        pitchIndex ==
            IF enabled
            THEN s.numEnabledNegativeVoltages
                 + Round(v * s.numEnabledSteps, Period(s.scale))
            ELSE s.numNegativeVoltages + Round(v * Len(s.scale), Period(s.scale))
    IN  IF tab = <<>> THEN RootStep(s)
        ELSE IF pitchIndex < 0 THEN tab[1]
        ELSE IF pitchIndex >= Len(tab) THEN tab[Len(tab)]
        ELSE tab[pitchIndex + 1]

\* round(v * 12) with v in 1/1200 V
getPitchFrom12Edo(s, v, enabled) ==
    LET pitchIndex == s.numNegativeVoltages + Round(v * 12, CentsPerVolt)
    IN  IF s.pitches = <<>> THEN RootStep(s)
        ELSE IF pitchIndex < 0 THEN s.pitches[1]
        ELSE IF pitchIndex >= Len(s.pitches) THEN s.pitches[Len(s.pitches)]
        ELSE IF enabled
             THEN getPitchByProximity(s, s.pitches[pitchIndex + 1].voltage, enabled)
             ELSE s.pitches[pitchIndex + 1]

Quantize(s, mode, v, enabled) ==
    CASE mode = "proportional" -> getPitchProportional(s, v, enabled)
      [] mode = "proximity" -> getPitchByProximity(s, v, enabled)
      [] mode = "twelveEdoInput" -> getPitchFrom12Edo(s, v, enabled)
      [] OTHER -> getPitchByProximity(s, v, enabled)

getEnabledPitch(s, v) == Quantize(s, s.inputMappingMode, v, TRUE)

getCvPitch(s, v) == Quantize(s, s.cvMappingMode, v, FALSE)

(***************************************************************************)
(* Bounds of the model and the inputs drawn from them                      *)
(***************************************************************************)
\* UI and patching actions in one behaviour
MaxUiOps == 2
\* the step buttons pushed: light indices 0..MaxButton
MaxButton == 0
\* frames in a row shorter than the scan cadence
MaxQuietFrames == 2
\* light ticks of an error display that are followed
MaxErrorTicks == 2

\* args.sampleTime: a 1500 Hz and a 30 Hz engine
FastSampleTime == TicksPerSecond \div 1500
SlowSampleTime == TicksPerSecond \div 30
SampleTimes == {FastSampleTime, SlowSampleTime}

Buttons == 0..MaxButton
Pushes == {{}} \cup {{b} : b \in Buttons}

\* the voltages of the channels of inputs[PITCH_INPUT], in 1/1200 V: the
\* pitch input and output stay patched, with one channel at 2.5 V
PitchInputs == {<<3000>>}
\* the voltages of the channels of inputs[CV_INPUT]; <<>> is no cable
NoCable == <<>>
CvInputs == {NoCable, <<0>>, <<0, 650>>}

\* What readSCLFile and Tuning make of the file chosen: a TuningError, or
\* the tones in the order of the file
ScalaFiles ==
    { [path |-> "/scl/tritone.scl", ok |-> TRUE, tones |-> <<1200, 600>>],
      [path |-> "/scl/broken.scl", ok |-> FALSE, tones |-> <<>>] }

\* a key the JSON object does not have
Absent == "absent"

\* Persisted states handed to dataFromJson
JsonRoots ==
    { [hasScale |-> TRUE,
       scale |-> <<ScaleStep(400, TRUE), ScaleStep(1200, FALSE)>>,
       tuningName |-> "saved.scl", scalaDir |-> "/scl",
       inputMappingMode |-> "twelveEdoInput", cvMappingMode |-> "proportional"],
      [hasScale |-> TRUE, scale |-> <<>>,
       tuningName |-> "saved.scl", scalaDir |-> Absent,
       inputMappingMode |-> "proportional", cvMappingMode |-> Absent],
      [hasScale |-> FALSE, scale |-> <<>>,
       tuningName |-> Absent, scalaDir |-> Absent,
       inputMappingMode |-> Absent, cvMappingMode |-> Absent] }

\* rand() % 100 >= 50, step by step: the steps that come out enabled, as a
\* set of 0-based positions
CoinRuns == {{0}, {1, 2}}

\* what an int that was never assigned may hold
Indeterminate == {0, 7}

(***************************************************************************)
(* The state: the fields of XenQnt, its ports and lights                   *)
(***************************************************************************)
VARIABLES
    scale, newScale, backupScale,
    pitches, enabledPitches,
    numNegativeVoltages, numEnabledNegativeVoltages, numEnabledSteps,
    scalaDir, tuningName,
    prevInputVolts, cvMappingMode, inputMappingMode,
    userPushed, cvConnected, tuningChangeRequested,
    lightUpdateTimer, cvScanTimer,
    error, blinkTime, blinkCount,
    lights, lightFault,
    cvInput, pitchInput, pitchOutput,
    halted, lastOp, uiOps,
    atConnect, atLoad, atCommit,
    pc

fields == <<scale, newScale, backupScale, pitches, enabledPitches,
            numNegativeVoltages, numEnabledNegativeVoltages, numEnabledSteps,
            scalaDir, tuningName, prevInputVolts, cvMappingMode,
            inputMappingMode, userPushed, cvConnected, tuningChangeRequested,
            lightUpdateTimer, cvScanTimer, error, blinkTime, blinkCount,
            lights, lightFault, pitchOutput, halted>>

\* the voltages at the CV input, and at the pitch input in the last call
ports == <<cvInput, pitchInput>>
\* History kept for the statements below, read by no operation.
\* atConnect: the live scale as the CV stage found it when it saw the cable,
\* while nothing but the learner has touched the scale since.
\* atLoad: the live scale and the tuning name before a failed load on a
\* module at rest, while nothing else has been asked of the module since.
\* atCommit: the staged scale that process() committed while the CV input
\* was connected, until a call that finds the input disconnected, while no
\* button has toggled a step since.
history == <<atConnect, atLoad, atCommit>>

\* pc: where the engine thread is in process() and the UI thread in
\* onReset(), with the loop counter i of onReset, when the two are followed
\* statement by statement
vars == <<fields, ports, lastOp, uiOps, history, pc>>

\* the module as a record, for the operators that read several fields
Self ==
    [scale |-> scale, newScale |-> newScale, backupScale |-> backupScale,
     pitches |-> pitches, enabledPitches |-> enabledPitches,
     numNegativeVoltages |-> numNegativeVoltages,
     numEnabledNegativeVoltages |-> numEnabledNegativeVoltages,
     numEnabledSteps |-> numEnabledSteps,
     scalaDir |-> scalaDir, tuningName |-> tuningName,
     prevInputVolts |-> prevInputVolts,
     cvMappingMode |-> cvMappingMode, inputMappingMode |-> inputMappingMode,
     userPushed |-> userPushed, cvConnected |-> cvConnected,
     tuningChangeRequested |-> tuningChangeRequested,
     lightUpdateTimer |-> lightUpdateTimer, cvScanTimer |-> cvScanTimer,
     error |-> error, blinkTime |-> blinkTime, blinkCount |-> blinkCount,
     lights |-> lights, lightFault |-> lightFault,
     pitchOutput |-> pitchOutput, halted |-> halted]

\* the fields after an operation that leaves the module as the record s
Becomes(s) ==
    /\ scale' = s.scale
    /\ newScale' = s.newScale
    /\ backupScale' = s.backupScale
    /\ pitches' = s.pitches
    /\ enabledPitches' = s.enabledPitches
    /\ numNegativeVoltages' = s.numNegativeVoltages
    /\ numEnabledNegativeVoltages' = s.numEnabledNegativeVoltages
    /\ numEnabledSteps' = s.numEnabledSteps
    /\ scalaDir' = s.scalaDir
    /\ tuningName' = s.tuningName
    /\ prevInputVolts' = s.prevInputVolts
    /\ cvMappingMode' = s.cvMappingMode
    /\ inputMappingMode' = s.inputMappingMode
    /\ userPushed' = s.userPushed
    /\ cvConnected' = s.cvConnected
    /\ tuningChangeRequested' = s.tuningChangeRequested
    /\ lightUpdateTimer' = s.lightUpdateTimer
    /\ cvScanTimer' = s.cvScanTimer
    /\ error' = s.error
    /\ blinkTime' = s.blinkTime
    /\ blinkCount' = s.blinkCount
    /\ lights' = s.lights
    /\ lightFault' = s.lightFault
    /\ pitchOutput' = s.pitchOutput
    /\ halted' = s.halted

\* the fields are those of the record s
Is(s) ==
    /\ scale = s.scale
    /\ newScale = s.newScale
    /\ backupScale = s.backupScale
    /\ pitches = s.pitches
    /\ enabledPitches = s.enabledPitches
    /\ numNegativeVoltages = s.numNegativeVoltages
    /\ numEnabledNegativeVoltages = s.numEnabledNegativeVoltages
    /\ numEnabledSteps = s.numEnabledSteps
    /\ scalaDir = s.scalaDir
    /\ tuningName = s.tuningName
    /\ prevInputVolts = s.prevInputVolts
    /\ cvMappingMode = s.cvMappingMode
    /\ inputMappingMode = s.inputMappingMode
    /\ userPushed = s.userPushed
    /\ cvConnected = s.cvConnected
    /\ tuningChangeRequested = s.tuningChangeRequested
    /\ lightUpdateTimer = s.lightUpdateTimer
    /\ cvScanTimer = s.cvScanTimer
    /\ error = s.error
    /\ blinkTime = s.blinkTime
    /\ blinkCount = s.blinkCount
    /\ lights = s.lights
    /\ lightFault = s.lightFault
    /\ pitchOutput = s.pitchOutput
    /\ halted = s.halted

(***************************************************************************)
(* process(), stage by stage.  Each stage takes the module as it is when   *)
(* the stage is entered and gives the module as the stage leaves it.       *)
(* halted: process() has not returned and never will, because updateTuning *)
(* runs on a scale on which its loops do not end or vector::at threw.      *)
(***************************************************************************)
LightPeriod == TicksPerSecond \div FRAME_RATE
ScanPeriod == TicksPerSecond \div ScanRate

TimerStage(s, sampleTime) ==
    LET lt == s.lightUpdateTimer + sampleTime
        st == s.cvScanTimer + sampleTime
    IN  [s EXCEPT !.lightUpdateTimer = IF lt > LightPeriod THEN 0 ELSE lt,
                  !.cvScanTimer = IF st > ScanPeriod THEN 0 ELSE st]

\* the call updateTuning() on the module s
Rebuild(s) ==
    IF ~Terminates(s.scale) THEN [s EXCEPT !.halted = TRUE]
    ELSE LET t == updateTuning(s.scale)
         IN  [s EXCEPT !.pitches = t.pitches,
                       !.enabledPitches = t.enabledPitches,
                       !.numNegativeVoltages = t.numNegativeVoltages,
                       !.numEnabledNegativeVoltages = t.numEnabledNegativeVoltages,
                       !.numEnabledSteps = t.numEnabledSteps]

\* faulty variant: the commit leaves prevInputVolts as it is
CommitStageKeepsMemory(s) ==
    IF s.halted \/ ~s.tuningChangeRequested THEN s
    ELSE LET a == IF s.newScale # <<>>
                  THEN [s EXCEPT !.scale = s.newScale,
                                 !.backupScale = s.newScale,
                                 !.newScale = <<>>]
                  ELSE s
             b == Rebuild(a)
         IN  IF b.halted THEN b
             ELSE [b EXCEPT !.tuningChangeRequested = FALSE]

\* faulty variant: the commit leaves the backup as it is
CommitStageKeepsBackup(s) ==
    IF s.halted \/ ~s.tuningChangeRequested THEN s
    ELSE LET a == IF s.newScale # <<>>
                  THEN [s EXCEPT !.scale = s.newScale,
                                 !.newScale = <<>>]
                  ELSE s
             b == Rebuild(a)
         IN  IF b.halted THEN b
             ELSE [b EXCEPT !.tuningChangeRequested = FALSE,
                            !.prevInputVolts = <<>>]

\* if (tuningChangeRequested) { ... }
CommitStage(s) ==
    IF s.halted \/ ~s.tuningChangeRequested THEN s
    ELSE LET a == IF s.newScale # <<>>
                  THEN [s EXCEPT !.scale = s.newScale,
                                 !.backupScale = s.newScale,
                                 !.newScale = <<>>]
                  ELSE s
             b == Rebuild(a)
         IN  IF b.halted THEN b
             ELSE [b EXCEPT !.tuningChangeRequested = FALSE,
                            !.prevInputVolts = <<>>]

setEnabledStatusAllSteps(sc, enabled) ==
    [i \in 1..Len(sc) |-> [sc[i] EXCEPT !.enabled = enabled]]

\* faulty variant: the steps are not disabled before the voltages are learnt
LearnKeepsEnabled(s, inputVolts) ==
    LET hit == {getCvPitch(s, inputVolts[k]).scaleIndex : k \in 1..Len(inputVolts)}
        learned == [i \in 1..Len(s.scale) |->
                       [s.scale[i] EXCEPT
                           !.enabled = s.scale[i].enabled \/ (i - 1) \in hit]]
    IN  IF \E x \in hit : x < 0 \/ x >= Len(s.scale)
        THEN [s EXCEPT !.halted = TRUE]
        ELSE LET b == Rebuild([s EXCEPT !.scale = learned])
             IN  IF b.halted THEN b ELSE [b EXCEPT !.prevInputVolts = inputVolts]

\* if (inputVolts != prevInputVolts) { ... }
Learn(s, inputVolts) ==
    LET hit == {getCvPitch(s, inputVolts[k]).scaleIndex : k \in 1..Len(inputVolts)}
        learned == [i \in 1..Len(s.scale) |->
                       [s.scale[i] EXCEPT !.enabled = (i - 1) \in hit]]
    IN  IF \E x \in hit : x < 0 \/ x >= Len(s.scale)
        THEN [s EXCEPT !.scale = setEnabledStatusAllSteps(s.scale, FALSE),
                       !.halted = TRUE]
        ELSE LET b == Rebuild([s EXCEPT !.scale = learned])
             IN  IF b.halted THEN b ELSE [b EXCEPT !.prevInputVolts = inputVolts]

\* faulty variant: the CV input is scanned in every frame
CvStageEveryFrame(s, cv) ==
    IF s.halted THEN s
    ELSE IF cv # NoCable
    THEN LET a == IF ~s.cvConnected
                  THEN [s EXCEPT !.prevInputVolts = <<>>,
                                 !.backupScale = s.scale,
                                 !.cvConnected = TRUE]
                  ELSE s
         IN  IF cv # a.prevInputVolts THEN Learn(a, cv) ELSE a
    ELSE IF s.cvConnected
         THEN LET b == Rebuild([s EXCEPT !.scale = s.backupScale])
              IN  IF b.halted THEN b ELSE [b EXCEPT !.cvConnected = FALSE]
         ELSE s

\* faulty variant: connecting takes no backup of the scale
CvStageNoBackup(s, cv) ==
    IF s.halted THEN s
    ELSE IF cv # NoCable
    THEN IF s.cvScanTimer = 0
         THEN LET a == IF ~s.cvConnected
                       THEN [s EXCEPT !.prevInputVolts = <<>>,
                                      !.cvConnected = TRUE]
                       ELSE s
              IN  IF cv # a.prevInputVolts THEN Learn(a, cv) ELSE a
         ELSE s
    ELSE IF s.cvConnected
         THEN LET b == Rebuild([s EXCEPT !.scale = s.backupScale])
              IN  IF b.halted THEN b ELSE [b EXCEPT !.cvConnected = FALSE]
         ELSE s

\* if (inputs[CV_INPUT].isConnected()) { ... } else { ... }
CvStage(s, cv) ==
    IF s.halted THEN s
    ELSE IF cv # NoCable
    THEN IF s.cvScanTimer = 0
         THEN LET a == IF ~s.cvConnected
                       THEN [s EXCEPT !.prevInputVolts = <<>>,
                                      !.backupScale = s.scale,
                                      !.cvConnected = TRUE]
                       ELSE s
              IN  IF cv # a.prevInputVolts THEN Learn(a, cv) ELSE a
         ELSE s
    ELSE IF s.cvConnected
         THEN LET b == Rebuild([s EXCEPT !.scale = s.backupScale])
              IN  IF b.halted THEN b ELSE [b EXCEPT !.cvConnected = FALSE]
         ELSE s

scaleToLightIdx(s, scaleIdx) == (scaleIdx + 1) % Len(s.scale)

RedLight(id) == id * 2
OrangeLight(id) == id * 2 + 1

\* faulty variant: the fourth cycle starts the sequence again
BlinkStageForever(s) ==
    LET bt == s.blinkTime + LightPeriod
        over == bt > TicksPerSecond
        count == IF over THEN s.blinkCount + 1 ELSE s.blinkCount
        time == IF over THEN 0 ELSE bt
        lit == [i \in DOMAIN s.lights |->
                   IF i = RedLight(0) /\ ~(2 * time > TicksPerSecond)
                   THEN 10 ELSE 0]
    IN  IF count > 3
        THEN [s EXCEPT !.lights = lit, !.blinkCount = 0, !.blinkTime = 0]
        ELSE [s EXCEPT !.lights = lit, !.blinkCount = count, !.blinkTime = time]

\* the blink branch of the light stage
BlinkStage(s) ==
    LET bt == s.blinkTime + LightPeriod
        over == bt > TicksPerSecond
        count == IF over THEN s.blinkCount + 1 ELSE s.blinkCount
        time == IF over THEN 0 ELSE bt
        lit == [i \in DOMAIN s.lights |->
                   IF i = RedLight(0) /\ ~(2 * time > TicksPerSecond)
                   THEN 10 ELSE 0]
    IN  IF count > 3
        THEN [s EXCEPT !.lights = lit, !.error = FALSE,
                       !.blinkCount = 0, !.blinkTime = 0]
        ELSE [s EXCEPT !.lights = lit, !.blinkCount = count, !.blinkTime = time]

\* the steps branch of the light stage; pushed holds the light indices whose
\* stepTriggers[index].process(...) sees a button go down in this frame
StepsStage(s, pushed) ==
    LET n == Len(s.scale)
        shown(i) == scaleToLightIdx(s, i - 1) < MATRIX_SIZE
        toggled(i) == shown(i) /\ scaleToLightIdx(s, i - 1) \in pushed
        \* the step whose light is id: the inverse of scaleToLightIdx
        stepOf(id) == ((id + n - 1) % n) + 1
        red == [i \in DOMAIN s.lights |->
                   IF i % 2 = 0 /\ i \div 2 < n
                   THEN IF s.scale[stepOf(i \div 2)].enabled THEN 9 ELSE 1
                   ELSE IF i % 2 = 0 THEN 0 ELSE s.lights[i]]
        sc == [i \in 1..n |->
                  IF toggled(i)
                  THEN [s.scale[i] EXCEPT !.enabled = ~s.scale[i].enabled]
                  ELSE s.scale[i]]
        a == [s EXCEPT !.lights = red, !.scale = sc]
    IN  IF s.userPushed \/ \E i \in 1..n : toggled(i)
        THEN LET b == Rebuild(a)
             IN  IF b.halted THEN [b EXCEPT !.userPushed = TRUE]
                 ELSE [b EXCEPT !.userPushed = FALSE]
        ELSE a

\* if (lightUpdateTimer == 0) { ... }
LightStage(s, pushed) ==
    IF s.halted \/ s.lightUpdateTimer # 0 THEN s
    ELSE IF s.error THEN BlinkStage(s)
    ELSE StepsStage(s, pushed)

\* the pitch inputs, the outputs and the orange lights
PitchStage(s, volts, outputConnected) ==
    IF s.halted \/ ~outputConnected THEN s
    ELSE LET show == s.lightUpdateTimer = 0 /\ ~s.error
             step == [k \in 1..Len(volts) |-> getEnabledPitch(s, volts[k])]
             ids == {scaleToLightIdx(s, step[k].scaleIndex) : k \in 1..Len(volts)}
             orange == [i \in DOMAIN s.lights |->
                           IF i % 2 = 1
                           THEN IF (i - 1) \div 2 \in ids THEN 7 ELSE 0
                           ELSE s.lights[i]]
         IN  [s EXCEPT !.pitchOutput = [k \in 1..Len(volts) |-> step[k].voltage],
                       !.lights = IF show THEN orange ELSE s.lights,
                       !.lightFault = s.lightFault
                                      \/ (show /\ \E id \in ids : id >= MATRIX_SIZE)]

AfterProcess(s, sampleTime, cv, pushed, volts, outputConnected) ==
    PitchStage(LightStage(CvStage(CommitStage(TimerStage(s, sampleTime)), cv),
                          pushed),
               volts, outputConnected)

(***************************************************************************)
(* The operations                                                          *)
(***************************************************************************)
\* faulty variant: the default scale starts at the unison
DefaultScaleFromUnison == [i \in 1..12 |-> ScaleStep((i - 1) * 100, TRUE)]

\* the scale onReset stages: 12 equal steps of 100 cents, all enabled
DefaultScale == [i \in 1..12 |-> ScaleStep(i * 100, TRUE)]

\* std::sort with comp = stepLeft.cents < stepRight.cents
RECURSIVE InsertByCents(_, _)
InsertByCents(step, sorted) ==
    IF sorted = <<>> THEN <<step>>
    ELSE IF step.cents < Head(sorted).cents THEN <<step>> \o sorted
    ELSE <<Head(sorted)>> \o InsertByCents(step, Tail(sorted))

RECURSIVE SortByCents(_)
SortByCents(sc) ==
    IF sc = <<>> THEN <<>>
    ELSE InsertByCents(Head(sc), SortByCents(Tail(sc)))

\* substr(find_last_of("/\\") + 1) and getParent, on the paths of ScalaFiles
BaseName(path) ==
    CASE path = "/scl/tritone.scl" -> "tritone.scl"
      [] path = "/scl/broken.scl" -> "broken.scl"
      [] OTHER -> path

ParentDir(path) ==
    CASE path = "/scl/tritone.scl" -> "/scl"
      [] path = "/scl/broken.scl" -> "/scl"
      [] OTHER -> ""

\* the module after updateScale(scalaFile)
updateScale(s, file) ==
    IF file.ok
    THEN [s EXCEPT !.tuningName = BaseName(file.path),
                   !.newScale = SortByCents([i \in 1..Len(file.tones) |->
                                                ScaleStep(file.tones[i], TRUE)])]
    ELSE [s EXCEPT !.newScale = <<>>, !.error = TRUE]

\* the module after MenuItemLoadScalaFile::pathSelected with a path
pathSelected(s, file) ==
    [updateScale([s EXCEPT !.scalaDir = ParentDir(file.path)], file)
        EXCEPT !.tuningChangeRequested = TRUE]

onReset(s) ==
    [s EXCEPT !.tuningName = TWELVE_EDO,
              !.newScale = DefaultScale,
              !.tuningChangeRequested = TRUE]

\* faulty variant: randomizing asks for no rebuild
onRandomizeNoRequest(s, coins) ==
    [s EXCEPT !.scale = [i \in 1..Len(s.scale) |->
                            [s.scale[i] EXCEPT !.enabled = (i - 1) \in coins]]]

\* coins: the 0-based positions at which rand() % 100 >= 50
onRandomize(s, coins) ==
    [s EXCEPT !.scale = [i \in 1..Len(s.scale) |->
                            [s.scale[i] EXCEPT !.enabled = (i - 1) \in coins]],
              !.tuningChangeRequested = TRUE]

dataFromJson(s, root) ==
    [s EXCEPT !.inputMappingMode = IF root.inputMappingMode # Absent
                                   THEN root.inputMappingMode ELSE "proximity",
              !.cvMappingMode = IF root.cvMappingMode # Absent
                                THEN root.cvMappingMode ELSE "proximity",
              !.tuningName = IF root.tuningName # Absent
                             THEN root.tuningName ELSE "Unknown",
              !.scalaDir = IF root.scalaDir # Absent
                           THEN root.scalaDir ELSE s.scalaDir,
              !.newScale = IF root.hasScale THEN root.scale ELSE s.newScale,
              !.tuningChangeRequested = TRUE]

\* MenuItemDisableAllNotes and MenuItemEnableAllNotes
setAllNotes(s, enabled) ==
    [s EXCEPT !.scale = setEnabledStatusAllSteps(s.scale, enabled),
              !.tuningChangeRequested = TRUE]

\* an action of the UI thread or of the patch: counted, and not on a module
\* whose process() hangs
Ui(name) ==
    /\ ~halted
    /\ uiOps < MaxUiOps
    /\ uiOps' = uiOps + 1
    /\ lastOp' = name
    /\ UNCHANGED <<atCommit, pc>>

\* the field initialisers and the constructor, which ends in onReset();
\* n is what the three counters hold, which nothing has assigned
Constructed(n) ==
    onReset([scale |-> <<>>, newScale |-> <<>>, backupScale |-> <<>>,
             pitches |-> <<>>, enabledPitches |-> <<>>,
             numNegativeVoltages |-> n,
             numEnabledNegativeVoltages |-> n,
             numEnabledSteps |-> n,
             scalaDir |-> "", tuningName |-> TWELVE_EDO,
             prevInputVolts |-> <<>>,
             cvMappingMode |-> "proximity", inputMappingMode |-> "proximity",
             userPushed |-> FALSE, cvConnected |-> FALSE,
             tuningChangeRequested |-> FALSE,
             lightUpdateTimer |-> 0, cvScanTimer |-> 0,
             error |-> FALSE, blinkTime |-> 0, blinkCount |-> 0,
             lights |-> [i \in 0..(2 * MATRIX_SIZE - 1) |-> 0],
             lightFault |-> FALSE,
             pitchOutput |-> <<>>, halted |-> FALSE])

Nothing == <<>>

\* no call of process() and none of onReset() is under way
AtEase == [process |-> "idle", ui |-> "idle", i |-> 0]

\* no cable, no history, no action yet
Unpatched ==
    /\ cvInput = NoCable
    /\ pitchInput = <<>>
    /\ lastOp = "XenQnt"
    /\ uiOps = 0
    /\ atConnect = Nothing
    /\ atLoad = Nothing
    /\ atCommit = Nothing
    /\ pc = AtEase

Init ==
    /\ \E n \in Indeterminate : Is(Constructed(n))
    /\ Unpatched

\* a request that touches the scale ends both histories
Forget ==
    /\ atConnect' = Nothing
    /\ atLoad' = Nothing

\* process() would leave the scale of this module alone
AtRest ==
    /\ ~tuningChangeRequested
    /\ ~userPushed
    /\ ~error
    /\ cvConnected = (cvInput # NoCable)
    /\ cvConnected => prevInputVolts = cvInput

Reset ==
    /\ Ui("onReset")
    /\ Becomes(onReset(Self))
    /\ Forget
    /\ UNCHANGED ports

LoadScalaFile ==
    \E file \in ScalaFiles :
        /\ Ui(IF file.ok THEN "pathSelected" ELSE "pathSelected: TuningError")
        /\ Becomes(pathSelected(Self, file))
        /\ atConnect' = Nothing
        /\ atLoad' = IF ~file.ok /\ AtRest
                     THEN <<[scale |-> scale, tuningName |-> tuningName]>>
                     ELSE Nothing
        /\ UNCHANGED ports

Randomize ==
    \E coins \in CoinRuns :
        /\ Ui("onRandomize")
        /\ Becomes(onRandomize(Self, coins))
        /\ Forget
        /\ UNCHANGED ports

RestoreJson ==
    \E root \in JsonRoots :
        /\ Ui("dataFromJson")
        /\ Becomes(dataFromJson(Self, root))
        /\ Forget
        /\ UNCHANGED ports

DisableAllNotes ==
    /\ Ui("MenuItemDisableAllNotes")
    /\ Becomes(setAllNotes(Self, FALSE))
    /\ Forget
    /\ UNCHANGED ports

EnableAllNotes ==
    /\ Ui("MenuItemEnableAllNotes")
    /\ Becomes(setAllNotes(Self, TRUE))
    /\ Forget
    /\ UNCHANGED ports

\* MenuItemInputMappingProportional, ...Proximity and ...12EdoInput
SelectInputMappingMode ==
    \E mode \in MappingMode :
        /\ Ui("inputMappingMode")
        /\ Becomes([Self EXCEPT !.inputMappingMode = mode,
                                !.tuningChangeRequested = TRUE])
        /\ atLoad' = Nothing
        /\ UNCHANGED <<ports, atConnect>>

\* MenuItemCvMappingProportional, ...Proximity and ...12EdoInput
SelectCvMappingMode ==
    \E mode \in MappingMode :
        /\ Ui("cvMappingMode")
        /\ Becomes([Self EXCEPT !.cvMappingMode = mode,
                                !.tuningChangeRequested = TRUE])
        /\ atLoad' = Nothing
        /\ UNCHANGED <<ports, atConnect>>

\* a cable is plugged into or pulled from the CV input, or its voltages move
PatchCv ==
    \E cv \in CvInputs :
        /\ cv # cvInput
        /\ Ui("patch")
        /\ cvInput' = cv
        /\ atLoad' = Nothing
        /\ UNCHANGED <<fields, pitchInput, atConnect>>

\* one call of process(): sampleTime is args.sampleTime, pushed the buttons
\* that go down, volts the channels of the pitch input
Frame(sampleTime, pushed, volts, outputConnected) ==
    LET entering == CommitStage(TimerStage(Self, sampleTime))
        leaving == AfterProcess(Self, sampleTime, cvInput, pushed, volts,
                                outputConnected)
    IN  /\ ~halted
        /\ Becomes(leaving)
        /\ pitchInput' = volts
        /\ lastOp' = "process"
        /\ atConnect' = IF pushed # {} THEN Nothing
                        ELSE IF ~cvConnected /\ leaving.cvConnected
                        THEN entering.scale
                        ELSE IF ~cvConnected THEN Nothing
                        ELSE atConnect
        /\ atLoad' = IF pushed # {} THEN Nothing ELSE atLoad
        /\ atCommit' = IF pushed # {} THEN Nothing
                       ELSE IF /\ cvConnected
                               /\ tuningChangeRequested
                               /\ newScale # <<>>
                       THEN newScale
                       ELSE IF ~cvConnected THEN Nothing
                       ELSE atCommit
        /\ UNCHANGED <<cvInput, uiOps, pc>>

Process ==
    \E sampleTime \in SampleTimes, pushed \in Pushes, volts \in PitchInputs :
        /\ sampleTime = FastSampleTime
              => lightUpdateTimer < MaxQuietFrames * FastSampleTime
        /\ error => blinkCount = 0 /\ blinkTime < MaxErrorTicks * LightPeriod
        \* the triggers are looked at in the steps branch of the light stage
        \* only
        /\ pushed # {} => /\ TimerStage(Self, sampleTime).lightUpdateTimer = 0
                          /\ ~error
        /\ Frame(sampleTime, pushed, volts, TRUE)

Next ==
    \/ Reset
    \/ LoadScalaFile
    \/ Randomize
    \/ RestoreJson
    \/ DisableAllNotes
    \/ EnableAllNotes
    \/ SelectInputMappingMode
    \/ SelectCvMappingMode
    \/ PatchCv
    \/ Process

Spec == Init /\ [][Next]_vars

(***************************************************************************)
(* The quantizer on its own: a patch is restored, process() has committed  *)
(* it, and then process() is called with one voltage after the other at    *)
(* the pitch input.                                                        *)
(***************************************************************************)
\* the scales restored: the default tuning with all, some and no steps
\* enabled, a tritone scale likewise, an uneven scale, a scale with a step
\* twice, and a single step
QuantizerScales ==
    { DefaultScale,
      [i \in 1..12 |-> ScaleStep(i * 100, i \in {4, 7, 12})],
      [i \in 1..12 |-> ScaleStep(i * 100, i \in {1, 5})],
      setEnabledStatusAllSteps(DefaultScale, FALSE),
      <<ScaleStep(600, TRUE), ScaleStep(1200, TRUE)>>,
      <<ScaleStep(600, TRUE), ScaleStep(1200, FALSE)>>,
      <<ScaleStep(600, FALSE), ScaleStep(1200, FALSE)>>,
      <<ScaleStep(200, TRUE), ScaleStep(700, FALSE), ScaleStep(1200, TRUE)>>,
      <<ScaleStep(700, TRUE), ScaleStep(700, TRUE), ScaleStep(1200, TRUE)>>,
      <<ScaleStep(1200, TRUE)>> }

\* the voltages quantized, in 1/1200 V: on table entries, midway between
\* them, off the middle, at MIN_VOLT and MAX_VOLT and beyond
QuantizerVoltages ==
    {-6000, -4860, -4800, -650, -600, -50, 0, 50, 60, 100, 300, 450, 600,
     650, 700, 950, 3000, 7200, 7260, 9000}

\* the persisted state of a module with the scale sc and the input mode mode
SavedPatch(sc, mode) ==
    [hasScale |-> TRUE, scale |-> sc,
     tuningName |-> "saved.scl", scalaDir |-> Absent,
     inputMappingMode |-> mode, cvMappingMode |-> Absent]

InitQ ==
    /\ \E n \in Indeterminate, sc \in QuantizerScales, mode \in MappingMode :
          Is(AfterProcess(dataFromJson(Constructed(n), SavedPatch(sc, mode)),
                          SlowSampleTime, NoCable, {}, <<>>, FALSE))
    /\ cvInput = NoCable
    /\ pitchInput = <<>>
    /\ lastOp = "process"
    /\ uiOps = 0
    /\ atConnect = Nothing
    /\ atLoad = Nothing
    /\ atCommit = Nothing
    /\ pc = AtEase

\* process() with the output patched and no, or one, channel at the input
QuantizeFrame ==
    \E volts \in {<<>>} \cup {<<v>> : v \in QuantizerVoltages} :
        Frame(SlowSampleTime, {}, volts, TRUE)

\* process() with nothing patched to the output
UnpatchedFrame == Frame(SlowSampleTime, {}, <<>>, FALSE)

NextQ ==
    \/ QuantizeFrame
    \/ UnpatchedFrame

SpecQ == InitQ /\ [][NextQ]_vars

(***************************************************************************)
(* Staging and commit on their own: from construction on, scales are       *)
(* staged by onReset, by a Scala file and by a persisted state with any    *)
(* scale list, and process() commits them.  Nothing is patched to the CV   *)
(* input and no button is pushed.                                          *)
(***************************************************************************)
\* a scale of one step more than the panel has step lights
ManySteps == [i \in 1..(MATRIX_SIZE + 1) |-> ScaleStep(83 * i, TRUE)]

\* the "scale" arrays of the persisted states: none, empty, a single step of
\* 0 and of 1200 cents, a scale that starts at the unison, a step twice,
\* steps out of order, a scale with a step disabled, the period twice, and
\* a scale of more steps than lights
RestoredScales ==
    { <<>>,
      <<ScaleStep(0, TRUE)>>,
      <<ScaleStep(1200, TRUE)>>,
      <<ScaleStep(0, TRUE), ScaleStep(1200, TRUE)>>,
      <<ScaleStep(700, TRUE), ScaleStep(700, FALSE), ScaleStep(1200, TRUE)>>,
      <<ScaleStep(1200, TRUE), ScaleStep(400, TRUE)>>,
      <<ScaleStep(600, FALSE), ScaleStep(1200, TRUE)>>,
      <<ScaleStep(1200, TRUE), ScaleStep(1200, FALSE)>>,
      ManySteps }

\* dataFromJson with a "scale" array
RestorePatch ==
    \E sc \in RestoredScales :
        /\ Ui("dataFromJson")
        /\ Becomes(dataFromJson(Self, SavedPatch(sc, "proximity")))
        /\ Forget
        /\ UNCHANGED ports

\* process() at the slow sample time: every frame is a light tick and a
\* scan tick
CommitFrame ==
    \E volts \in PitchInputs :
        /\ error => blinkCount = 0 /\ blinkTime < MaxErrorTicks * LightPeriod
        /\ Frame(SlowSampleTime, {}, volts, TRUE)

NextS ==
    \/ Reset
    \/ LoadScalaFile
    \/ RestorePatch
    \/ CommitFrame

SpecS == Init /\ [][NextS]_vars

(***************************************************************************)
(* The scale learner on its own: patches are restored, and voltages are    *)
(* patched to the CV input, moved and unpatched while process() is called  *)
(* at either sample time.  No button is pushed.                            *)
(***************************************************************************)
\* the scales restored: periods of 4 V and 3 V, and a scale with a step
\* twice
LearnerScales ==
    { <<ScaleStep(2400, TRUE), ScaleStep(4800, TRUE)>>,
      <<ScaleStep(1200, TRUE), ScaleStep(2400, TRUE), ScaleStep(3600, FALSE)>>,
      <<ScaleStep(2400, FALSE), ScaleStep(2400, TRUE), ScaleStep(4800, TRUE)>> }

\* the persisted state of a module with the scale sc and the CV mode mode
LearnerPatch(sc, mode) ==
    [hasScale |-> TRUE, scale |-> sc,
     tuningName |-> "saved.scl", scalaDir |-> Absent,
     inputMappingMode |-> Absent, cvMappingMode |-> mode]

\* dataFromJson with the scale and the CV mode of a patch
RestoreLearnerPatch ==
    \E sc \in LearnerScales, mode \in MappingMode :
        /\ Ui("dataFromJson")
        /\ Becomes(dataFromJson(Self, LearnerPatch(sc, mode)))
        /\ Forget
        /\ UNCHANGED ports

\* the voltages of the entries of the enabled table
EnabledVoltages == [k \in 1..Len(enabledPitches) |-> enabledPitches[k].voltage]

\* the CV input is given exactly the voltages of the enabled table, one
\* channel each
TeachEnabledTable ==
    /\ enabledPitches # <<>>
    /\ EnabledVoltages # cvInput
    /\ Ui("patch: the enabled table")
    /\ cvInput' = EnabledVoltages
    /\ atLoad' = Nothing
    /\ UNCHANGED <<fields, pitchInput, atConnect>>

\* process() with the pitch cables patched and no button pushed
LearnFrame ==
    \E sampleTime \in SampleTimes, volts \in PitchInputs :
        /\ sampleTime = FastSampleTime
              => lightUpdateTimer < MaxQuietFrames * FastSampleTime
        /\ Frame(sampleTime, {}, volts, TRUE)

NextL ==
    \/ RestoreLearnerPatch
    \/ PatchCv
    \/ TeachEnabledTable
    \/ LearnFrame

SpecL == Init /\ [][NextL]_vars

(***************************************************************************)
(* The error display on its own: Scala files are loaded, and process()     *)
(* keeps being called by the engine, at either sample time, for as long as *)
(* it returns.                                                             *)
(***************************************************************************)
\* process() with the pitch cables patched and no button pushed
BlinkFrame ==
    \E sampleTime \in SampleTimes, volts \in PitchInputs :
        /\ sampleTime = FastSampleTime
              => lightUpdateTimer < MaxQuietFrames * FastSampleTime
        /\ Frame(sampleTime, {}, volts, TRUE)

NextB ==
    \/ LoadScalaFile
    \/ BlinkFrame

\* The engine calls process() again whenever it has returned: a module hangs
\* for good, or process() is called again and again.  On a module that has
\* not hung a call that changes a timer is always possible, so this is weak
\* fairness of BlinkFrame, written without ENABLED.
EngineRuns == <>[]halted \/ []<><<BlinkFrame>>_vars

SpecB == Init /\ [][NextB]_vars /\ EngineRuns

(***************************************************************************)
(* Replacements under a patched CV input: a cable is plugged into the CV   *)
(* input, moved and pulled as often as one likes while scales are staged   *)
(* by onReset, by a Scala file and by a persisted state, and process()     *)
(* commits them.  No button is pushed.                                     *)
(***************************************************************************)
\* plugging, moving and pulling the CV cable
Repatch ==
    \E cv \in CvInputs :
        /\ cv # cvInput
        /\ ~halted
        /\ cvInput' = cv
        /\ lastOp' = "patch"
        /\ atLoad' = Nothing
        /\ UNCHANGED <<fields, pitchInput, uiOps, atConnect, atCommit, pc>>

NextC ==
    \/ Reset
    \/ LoadScalaFile
    \/ RestorePatch
    \/ Repatch
    \/ CommitFrame

SpecC == Init /\ [][NextC]_vars

(***************************************************************************)
(* Resets and file loads: the module is reset as often as one likes, is   *)
(* given Scala files and is restored from patches, and process() commits   *)
(* what is staged.                                                         *)
(***************************************************************************)
\* onReset, from the context menu, at any time
ResetAgain ==
    /\ ~halted
    /\ lastOp # "onReset"
    /\ Becomes(onReset(Self))
    /\ lastOp' = "onReset"
    /\ Forget
    /\ UNCHANGED <<ports, uiOps, atCommit, pc>>

NextR ==
    \/ ResetAgain
    \/ LoadScalaFile
    \/ RestorePatch
    \/ CommitFrame

SpecR == Init /\ [][NextR]_vars

(***************************************************************************)
(* Two threads: the engine thread calls process() while the UI thread      *)
(* calls onReset(), and the statements of the two interleave.  Each        *)
(* statement is taken as one step, which is the least a build does to      *)
(* fields that have no lock and are not atomic.  Nothing is patched to the *)
(* CV input and no button is pushed.                                       *)
(***************************************************************************)
\* a statement of process(): the module becomes s and the engine thread
\* moves to to
EngineStep(s, to) ==
    /\ ~halted
    /\ Becomes(s)
    /\ pc' = [pc EXCEPT !.process = to]
    /\ UNCHANGED <<ports, lastOp, uiOps, history>>

\* lightUpdateTimer += ...; cvScanTimer += ...
EnterProcess ==
    /\ pc.process = "idle"
    /\ EngineStep(TimerStage(Self, SlowSampleTime), "request?")

\* if (tuningChangeRequested)
TestRequest ==
    /\ pc.process = "request?"
    /\ EngineStep(Self, IF tuningChangeRequested THEN "staged?" ELSE "rest")

\* if (!newScale.empty())
TestStaged ==
    /\ pc.process = "staged?"
    /\ EngineStep(Self, IF newScale # <<>> THEN "assign" ELSE "updateTuning")

\* scale.assign(newScale.begin(), newScale.end())
AssignScale ==
    /\ pc.process = "assign"
    /\ EngineStep([Self EXCEPT !.scale = newScale], "backup")

\* backupScale = scale
BackupScale ==
    /\ pc.process = "backup"
    /\ EngineStep([Self EXCEPT !.backupScale = scale], "clear")

\* newScale.clear()
ClearStaged ==
    /\ pc.process = "clear"
    /\ EngineStep([Self EXCEPT !.newScale = <<>>], "updateTuning")

\* updateTuning()
UpdateTuning ==
    /\ pc.process = "updateTuning"
    /\ EngineStep(Rebuild(Self), "served")

\* tuningChangeRequested = false
ClearRequest ==
    /\ pc.process = "served"
    /\ EngineStep([Self EXCEPT !.tuningChangeRequested = FALSE], "forget")

\* prevInputVolts.clear()
ForgetScan ==
    /\ pc.process = "forget"
    /\ EngineStep([Self EXCEPT !.prevInputVolts = <<>>], "rest")

\* the rest of process(), which reads the live scale and the tables only
RestOfProcess ==
    \E volts \in PitchInputs :
        /\ ~halted
        /\ pc.process = "rest"
        /\ Becomes(PitchStage(LightStage(CvStage(Self, cvInput), {}),
                              volts, TRUE))
        /\ pitchInput' = volts
        /\ lastOp' = "process"
        /\ pc' = [pc EXCEPT !.process = "idle"]
        /\ UNCHANGED <<cvInput, uiOps, history>>

\* a statement of onReset(): the module becomes s and the UI thread moves
\* to to with the loop counter i
UiStep(s, to, i) ==
    /\ ~halted
    /\ Becomes(s)
    /\ pc' = [pc EXCEPT !.ui = to, !.i = i]
    /\ UNCHANGED <<ports, history>>

\* tuningName = TWELVE_EDO
ResetName ==
    /\ pc.ui = "idle"
    /\ uiOps < MaxUiOps
    /\ UiStep([Self EXCEPT !.tuningName = TWELVE_EDO], "clear", 0)
    /\ uiOps' = uiOps + 1
    /\ UNCHANGED lastOp

\* newScale.clear(); int i = 1
ResetClear ==
    /\ pc.ui = "clear"
    /\ UiStep([Self EXCEPT !.newScale = <<>>], "push", 1)
    /\ UNCHANGED <<lastOp, uiOps>>

\* newScale.push_back({ i * 100.f, true }); i++
ResetPush ==
    /\ pc.ui = "push"
    /\ UiStep([Self EXCEPT !.newScale =
                              Append(newScale, ScaleStep(pc.i * 100, TRUE))],
              IF pc.i < 12 THEN "push" ELSE "request",
              IF pc.i < 12 THEN pc.i + 1 ELSE 0)
    /\ UNCHANGED <<lastOp, uiOps>>

\* tuningChangeRequested = true
ResetRequest ==
    /\ pc.ui = "request"
    /\ UiStep([Self EXCEPT !.tuningChangeRequested = TRUE], "idle", 0)
    /\ lastOp' = "onReset"
    /\ UNCHANGED uiOps

NextT ==
    \/ EnterProcess
    \/ TestRequest
    \/ TestStaged
    \/ AssignScale
    \/ BackupScale
    \/ ClearStaged
    \/ UpdateTuning
    \/ ClearRequest
    \/ ForgetScan
    \/ RestOfProcess
    \/ ResetName
    \/ ResetClear
    \/ ResetPush
    \/ ResetRequest

SpecT == Init /\ [][NextT]_vars

(***************************************************************************)
(* The statements                                                          *)
(***************************************************************************)
\* what updateTuning left in the module
Tables ==
    [pitches |-> pitches, enabledPitches |-> enabledPitches,
     numNegativeVoltages |-> numNegativeVoltages,
     numEnabledNegativeVoltages |-> numEnabledNegativeVoltages,
     numEnabledSteps |-> numEnabledSteps]

Cents(sc) == [i \in 1..Len(sc) |-> sc[i].cents]

\* the steps a voltage vector teaches the module, as 0-based positions
Taught == {getCvPitch(Self, cvInput[k]).scaleIndex : k \in 1..Len(cvInput)}

\* C1: no trigger changes the live scale in place; the live scale changes
\* only in a process() call that finds a change request and a staged scale,
\* and then to the staged scale.
C1_LiveScaleChangesOnlyAtCommit ==
    [][scale' # scale => /\ lastOp' = "process"
                         /\ tuningChangeRequested
                         /\ newScale # <<>>
                         /\ scale' = newScale]_vars

\* C2: a process() call that finds a change request and returns leaves the
\* flag false and the staged scale empty; a staged scale that was not empty
\* is then the backup, and the live scale has its cents; the tables are
\* those of the live scale; prevInputVolts was cleared, so that it is empty
\* after a frame that does not scan the CV input, and on a scan tick the
\* learner has run on the voltages at the input although they did not move:
\* it holds them, and every step no button toggles is enabled exactly if
\* one of them is quantized to it.
C2_CommitCheckpoint ==
    [][(lastOp' = "process" /\ tuningChangeRequested /\ ~halted')
          => /\ ~tuningChangeRequested'
             /\ newScale' = <<>>
             /\ newScale # <<>> => /\ backupScale' = newScale
                                   /\ Cents(scale') = Cents(newScale)
             /\ newScale = <<>> => Cents(scale') = Cents(scale)
             /\ Terminates(scale')
             /\ Tables' = updateTuning(scale')
             /\ IF cvInput # NoCable /\ cvScanTimer' = 0
                THEN /\ prevInputVolts' = cvInput
                     /\ \A i \in 1..Len(scale') :
                           \/ (i % Len(scale')) \in Buttons
                           \/ scale'[i].enabled = ((i - 1) \in Taught')
                ELSE prevInputVolts' = <<>>]_vars

\* a staged scale was committed with the CV input patched, and learnt from
C2_Witness ==
    /\ lastOp = "process"
    /\ ~halted
    /\ tuningName = "tritone.scl"
    /\ Cents(scale) = <<600, 1200>>
    /\ backupScale = <<ScaleStep(600, TRUE), ScaleStep(1200, TRUE)>>
    /\ newScale = <<>>
    /\ ~tuningChangeRequested
    /\ cvInput = <<0>>
    /\ prevInputVolts = cvInput
    /\ scale = <<ScaleStep(600, FALSE), ScaleStep(1200, TRUE)>>

\* C3: whenever process() has returned, and so has quantized the pitch input
\* of that frame, the full table, the enabled table, the two counts of
\* negative voltages and the count of enabled steps are what updateTuning
\* builds from the live scale.
C3_TablesFollowLiveScale ==
    (lastOp = "process" /\ ~halted)
        => /\ Terminates(scale)
           /\ Tables = updateTuning(scale)

\* a voltage was quantized on a scale that has a step disabled
C3_Witness ==
    /\ lastOp = "process"
    /\ ~halted
    /\ pitchInput # <<>>
    /\ Len(pitchOutput) = Len(pitchInput)
    /\ \E i \in 1..Len(scale) : ~scale[i].enabled
    /\ Len(enabledPitches) < Len(pitches)

\* C4: after the frame that sees the CV cable pulled, when nothing but the
\* learner has touched the scale since the frame that saw it plugged, the
\* live scale is the scale of that moment, cents and enabled flags, and the
\* tables are built from it.
C4_DisconnectRestores ==
    (lastOp = "process" /\ ~halted /\ ~cvConnected /\ atConnect # Nothing)
        => /\ scale = atConnect
           /\ Terminates(scale)
           /\ Tables = updateTuning(scale)

\* the cable was pulled after the learner had run on two voltages
C4_Witness ==
    /\ lastOp = "process"
    /\ ~halted
    /\ ~cvConnected
    /\ atConnect # Nothing
    /\ prevInputVolts = <<0, 650>>
    /\ scale = atConnect

\* C5: after a load that failed on a module at rest, and after the process()
\* calls that follow it, the live scale and the tuning name are those from
\* before the load, and the error flag is set.
C5_FailedLoadLeavesScale ==
    atLoad # Nothing
        => /\ scale = atLoad[1].scale
           /\ tuningName = atLoad[1].tuningName
           /\ error

\* C6: a load that fails sets the error flag and leaves the change request
\* flag as it was.
C6_FailedLoadRequestsNothing ==
    [][lastOp' = "pathSelected: TuningError"
          => /\ error'
             /\ tuningChangeRequested' = tuningChangeRequested]_vars

\* C7: on a table that is not empty, getPitchByProximity returns an entry
\* of the table than which no entry is nearer to v, and the upper one of two
\* neighbours between which v is midway.
C7_ProximityNearestTieUp ==
    \A v \in QuantizerVoltages, enabled \in BOOLEAN :
        LET tab == IF enabled THEN enabledPitches ELSE pitches
            got == getPitchByProximity(Self, v, enabled)
            Abs(x) == IF x < 0 THEN -x ELSE x
        IN  tab # <<>>
              => /\ \E i \in 1..Len(tab) : got = tab[i]
                 /\ \A i \in 1..Len(tab) :
                       Abs(got.voltage - v) <= Abs(tab[i].voltage - v)
                 /\ \A i \in 1..(Len(tab) - 1) :
                       (/\ tab[i].voltage < v
                        /\ v - tab[i].voltage = tab[i + 1].voltage - v)
                          => got = tab[i + 1]

\* process() quantized by proximity a voltage midway between two enabled
\* pitches and put out the upper one
C7_Witness ==
    /\ lastOp = "process"
    /\ inputMappingMode = "proximity"
    /\ Len(pitchInput) = 1
    /\ \E i \in 1..(Len(enabledPitches) - 1) :
          /\ enabledPitches[i].voltage < pitchInput[1]
          /\ pitchInput[1] - enabledPitches[i].voltage
                = enabledPitches[i + 1].voltage - pitchInput[1]
          /\ pitchOutput = <<enabledPitches[i + 1].voltage>>

\* C8, as the code has it: on the default scale 0.05 V is quantized by
\* proximity to the entry of 1/12 V, whose scaleIndex is 0, the position of
\* the 100 cents step in the scale.
C8_TwelfthVoltIsStepZero ==
    scale = DefaultScale
        => getPitchByProximity(Self, CentsPerVolt \div 20, TRUE)
              = TuningStep(CentsPerVolt \div 12, 0)

\* C8, as stated: that entry has scaleIndex 1.
C8_TwelfthVoltIsStepOne ==
    scale = DefaultScale
        => getPitchByProximity(Self, CentsPerVolt \div 20, TRUE)
              = TuningStep(CentsPerVolt \div 12, 1)

\* process() quantized 0.05 V on the default scale: 1/12 V at the output,
\* and the orange light of the 100 cents step lit
C8_Witness ==
    /\ lastOp = "process"
    /\ scale = DefaultScale
    /\ inputMappingMode = "proximity"
    /\ pitchInput = <<CentsPerVolt \div 20>>
    /\ pitchOutput = <<CentsPerVolt \div 12>>
    /\ lights[OrangeLight(scaleToLightIdx(Self, 0))] = 7

\* C9: with no step of the live scale enabled, the step process() gets
\* from getEnabledPitch is 0 V with the index of the last step, whatever
\* the voltage at the pitch input and in each of the three mapping modes.
C9_NoStepEnabledGivesRoot ==
    (/\ lastOp = "process"
     /\ ~halted
     /\ pitchInput # <<>>
     /\ \A i \in 1..Len(scale) : ~scale[i].enabled)
        => \A k \in 1..Len(pitchInput) :
              getEnabledPitch(Self, pitchInput[k]) = TuningStep(0, Len(scale) - 1)

\* C10: every voltage process() writes to the pitch output is the voltage
\* of an entry of the enabled table, or 0 V when that table is empty.
C10_OutputIsEnabledPitch ==
    (lastOp = "process" /\ ~halted /\ pitchInput # <<>>)
        => /\ Len(pitchOutput) = Len(pitchInput)
           /\ \A k \in 1..Len(pitchOutput) :
                 IF enabledPitches = <<>>
                 THEN pitchOutput[k] = 0
                 ELSE \E i \in 1..Len(enabledPitches) :
                         enabledPitches[i].voltage = pitchOutput[k]

\* C11: in the 12-EDO mode the step process() gets from getEnabledPitch is,
\* for every voltage at the pitch input, also one whose grid index falls
\* outside the full table, the nearest entry of the enabled table to the
\* voltage of the full table entry at the grid index
\* numNegativeVoltages + round(12 v) clamped to the table, and its voltage
\* is at the output.
C11_TwelveEdoRequantizesClamped ==
    (/\ lastOp = "process"
     /\ ~halted
     /\ inputMappingMode = "twelveEdoInput"
     /\ pitches # <<>>)
        => \A k \in 1..Len(pitchInput) :
              LET index == numNegativeVoltages
                              + Round(pitchInput[k] * 12, CentsPerVolt)
                  clamped == IF index < 0 THEN 0
                             ELSE IF index >= Len(pitches) THEN Len(pitches) - 1
                             ELSE index
                  wanted == getPitchByProximity(Self, pitches[clamped + 1].voltage,
                                                TRUE)
              IN  /\ getEnabledPitch(Self, pitchInput[k]) = wanted
                  /\ pitchOutput[k] = wanted.voltage

\* C12: for every voltage, also at and beyond MIN_VOLT and MAX_VOLT, and
\* for the full and the enabled table, getPitchProportional returns the
\* entry at its index when that is a position of the table, the first entry
\* when the index is below 0 and the last when it is at or above the size;
\* getPitchFrom12Edo does the same on the full table, and requantizes the
\* entry at a position of the table by proximity when asked for an enabled
\* pitch.
C12_IndicesClamped ==
    (~halted /\ pitches # <<>>)
        => \A v \in QuantizerVoltages, enabled \in BOOLEAN :
              LET tab == IF enabled THEN enabledPitches ELSE pitches
                  proportional ==
                      IF enabled
                      THEN numEnabledNegativeVoltages
                           + Round(v * numEnabledSteps, Period(scale))
                      ELSE numNegativeVoltages
                           + Round(v * Len(scale), Period(scale))
                  grid == numNegativeVoltages + Round(v * 12, CentsPerVolt)
                  byShare == getPitchProportional(Self, v, enabled)
                  byGrid == getPitchFrom12Edo(Self, v, enabled)
              IN  /\ tab # <<>>
                        => /\ proportional < 0 => byShare = tab[1]
                           /\ proportional >= Len(tab) => byShare = tab[Len(tab)]
                           /\ proportional \in 0..(Len(tab) - 1)
                                 => byShare = tab[proportional + 1]
                  /\ grid < 0 => byGrid = pitches[1]
                  /\ grid >= Len(pitches) => byGrid = pitches[Len(pitches)]
                  /\ grid \in 0..(Len(pitches) - 1)
                        => byGrid = IF enabled
                                    THEN getPitchByProximity(
                                             Self, pitches[grid + 1].voltage, TRUE)
                                    ELSE pitches[grid + 1]

\* process() quantized 7.5 V in proportion: the index is past the end of
\* the enabled table, and the voltage of its last entry is at the output
C12_Witness ==
    /\ lastOp = "process"
    /\ ~halted
    /\ inputMappingMode = "proportional"
    /\ pitchInput = <<9000>>
    /\ enabledPitches # <<>>
    /\ numEnabledNegativeVoltages
          + Round(pitchInput[1] * numEnabledSteps, Period(scale))
             >= Len(enabledPitches)
    /\ pitchOutput = <<enabledPitches[Len(enabledPitches)].voltage>>

\* C13: when process() has built the tables of a live scale that is not
\* empty and whose cents are not negative and do not decrease, the voltages
\* of the full table increase strictly from entry to entry and lie within
\* MIN_VOLT and MAX_VOLT.
C13_FullTableStrictlyAscending ==
    (/\ lastOp = "process"
     /\ ~halted
     /\ scale # <<>>
     /\ \A i \in 1..Len(scale) : scale[i].cents >= 0
     /\ \A i \in 1..(Len(scale) - 1) : scale[i].cents <= scale[i + 1].cents)
        => /\ \A i \in 1..(Len(pitches) - 1) :
                 pitches[i].voltage < pitches[i + 1].voltage
           /\ \A i \in 1..Len(pitches) :
                 /\ pitches[i].voltage >= MinVoltC
                 /\ pitches[i].voltage <= MaxVoltC

\* C14: a process() call that runs updateTuning on a live scale that is not
\* empty and has no negative cents returns: both period walks come to an
\* end.
C14_UpdateTuningTerminates ==
    (/\ lastOp = "process"
     /\ scale # <<>>
     /\ \A i \in 1..Len(scale) : scale[i].cents >= 0)
        => /\ Terminates(scale)
           /\ ~halted

\* C15: whatever was reset, restored or loaded since construction, the live
\* scale is not empty once process() has been called, and so has built the
\* tables and quantized.
C15_LiveScaleNeverEmpty ==
    lastOp = "process" => scale # <<>>

\* C20: a process() call that finds a change request and returns leaves a
\* live scale whose cents do not decrease, whether a file, a persisted
\* state or a reset staged it.
C20_CommittedScaleSorted ==
    [][(lastOp' = "process" /\ tuningChangeRequested /\ ~halted')
          => \A i \in 1..(Len(scale') - 1) :
                scale'[i].cents <= scale'[i + 1].cents]_vars

\* C16: once the error flag is set and process() keeps returning, the flag
\* is cleared in the end, and by nothing but a process() call: the light
\* tick that ends the fourth blink cycle, each cycle being the light ticks
\* it takes blinkTime to pass one second; that call leaves the blink
\* counter and the blink timer at 0.
C16_BlinkEnds ==
    /\ error ~> (~error \/ halted)
    /\ [][(error /\ ~error')
             => /\ lastOp' = "process"
                /\ lightUpdateTimer' = 0
                /\ blinkCount = 3
                /\ blinkTime + LightPeriod > TicksPerSecond
                /\ blinkCount' = 0
                /\ blinkTime' = 0]_vars

\* a load failed on a module at rest, and process() has blinked the error
\* away
C16_Witness ==
    /\ lastOp = "process"
    /\ ~halted
    /\ atLoad # Nothing
    /\ ~error
    /\ blinkCount = 0
    /\ blinkTime = 0
    /\ lights[RedLight(0)] = 10

\* C17: in the proximity mode, a learner evaluation on exactly the voltages
\* of the enabled table, built from a live scale of which some step is
\* enabled, leaves the steps enabled that were enabled, and no other step.
C17_LearnerRoundTrip ==
    [][(/\ lastOp' = "process"
        /\ ~halted'
        /\ ~tuningChangeRequested
        /\ cvMappingMode = "proximity"
        /\ enabledPitches # <<>>
        /\ cvInput = EnabledVoltages
        /\ cvScanTimer' = 0
        /\ ~cvConnected \/ prevInputVolts # cvInput)
          => /\ prevInputVolts' = cvInput
             /\ \A i \in 1..Len(scale) :
                   scale'[i].enabled = scale[i].enabled]_vars

\* C18: a process() call that evaluates the learner on the voltages at the
\* CV input, with no button pushed, leaves enabled exactly the steps to
\* which getCvPitch quantizes one of the voltages on the full table, leaves
\* the length of the scale and the cents of every step as they were, leaves
\* the tables as updateTuning builds them from the result, and remembers
\* the voltages.
C18_LearnerEnablesTaughtSteps ==
    [][(/\ lastOp' = "process"
        /\ ~halted'
        /\ ~tuningChangeRequested
        /\ cvInput # NoCable
        /\ cvScanTimer' = 0
        /\ ~cvConnected \/ prevInputVolts # cvInput)
          => /\ Len(scale') = Len(scale)
             /\ Cents(scale') = Cents(scale)
             /\ \A i \in 1..Len(scale') :
                   scale'[i].enabled = ((i - 1) \in Taught)
             /\ Tables' = updateTuning(scale')
             /\ prevInputVolts' = cvInput]_vars

\* the learner has run on 0 V and 0.5417 V on the default scale: the last
\* step and the step of 700 cents are enabled, and no other
C18_Witness ==
    /\ lastOp = "process"
    /\ ~halted
    /\ cvConnected
    /\ cvMappingMode = "proximity"
    /\ prevInputVolts = <<0, 650>>
    /\ Cents(scale) = Cents(DefaultScale)
    /\ \A i \in 1..Len(scale) : scale[i].enabled = (i \in {7, 12})

\* C19: while the CV input stays connected and no commit is due, a
\* process() call evaluates the learner exactly if it is a scan tick and the
\* voltages at the input differ from those of the last evaluation; any
\* other call, with no button pushed, leaves the live scale, the tables and
\* the remembered voltages as they were.
C19_LearnsOnlyOnChangedScan ==
    [][(/\ lastOp' = "process"
        /\ ~halted'
        /\ ~tuningChangeRequested
        /\ cvConnected
        /\ cvInput # NoCable)
          => IF cvScanTimer' = 0 /\ cvInput # prevInputVolts
             THEN /\ prevInputVolts' = cvInput
                  /\ \A i \in 1..Len(scale') :
                        scale'[i].enabled = ((i - 1) \in Taught)
             ELSE /\ scale' = scale
                  /\ Tables' = Tables
                  /\ prevInputVolts' = prevInputVolts]_vars

\* the voltages at the connected CV input have moved, and the frame that
\* followed was no scan tick: the learner still holds the old voltages
C19_Witness ==
    /\ lastOp = "process"
    /\ ~halted
    /\ cvConnected
    /\ cvInput # NoCable
    /\ prevInputVolts # <<>>
    /\ cvInput # prevInputVolts
    /\ cvScanTimer # 0

\* C21: when process() has built the tables, every entry of the full table
\* and of the enabled table names a step of the live scale by its position
\* within the period, and its voltage is that step's cents moved by a whole
\* number of periods, below 0 V as above; the entry that
\* numNegativeVoltages points at is 0 V and names the last step, and it is
\* the only entry of 0 V when the cents are positive and increase strictly.
C21_EntriesNameTheirStep ==
    (lastOp = "process" /\ ~halted /\ Period(scale) > 0)
        => /\ \A table \in {pitches, enabledPitches} :
                 \A i \in 1..Len(table) :
                    /\ table[i].scaleIndex \in 0..(Len(scale) - 1)
                    /\ (table[i].voltage
                          - scale[table[i].scaleIndex + 1].cents)
                             % Period(scale) = 0
           /\ pitches[numNegativeVoltages + 1]
                 = TuningStep(0, Len(scale) - 1)
           /\ (/\ scale[1].cents > 0
               /\ \A i \in 1..(Len(scale) - 1) :
                     scale[i].cents < scale[i + 1].cents)
                 => \A i \in 1..Len(pitches) :
                       pitches[i].voltage = 0
                          => pitches[i].scaleIndex = Len(scale) - 1

\* a table built from a scale with a disabled step: the backward walk has
\* named both steps four periods down
C21_Witness ==
    /\ lastOp = "process"
    /\ ~halted
    /\ scale = <<ScaleStep(600, FALSE), ScaleStep(1200, TRUE)>>
    /\ pitches[1] = TuningStep(MinVoltC, 1)
    /\ pitches[2] = TuningStep(MinVoltC + 600, 0)
    /\ enabledPitches[2] = TuningStep(MinVoltC + 1200, 1)

\* C22: when process() has built the tables of a live scale that is not
\* empty and whose cents are not negative and do not decrease,
\* numNegativeVoltages is the number of entries of the full table below
\* 0 V and numEnabledNegativeVoltages the number of entries of the enabled
\* table below 0 V, and the entry of the full table that
\* numNegativeVoltages points at is of 0 V.
C22_NegativeCounts ==
    (/\ lastOp = "process"
     /\ ~halted
     /\ scale # <<>>
     /\ \A i \in 1..Len(scale) : scale[i].cents >= 0
     /\ \A i \in 1..(Len(scale) - 1) : scale[i].cents <= scale[i + 1].cents)
        => /\ numNegativeVoltages
                 = Cardinality({i \in 1..Len(pitches) :
                                   pitches[i].voltage < 0})
           /\ numEnabledNegativeVoltages
                 = Cardinality({i \in 1..Len(enabledPitches) :
                                   enabledPitches[i].voltage < 0})
           /\ pitches[numNegativeVoltages + 1].voltage = 0

\* C23: when process() commits a staged scale while the CV input is
\* connected, the backup becomes that scale and stays it while the input
\* is connected, whatever the learner does to the live scale; the call
\* that finds the input disconnected leaves the committed scale, cents and
\* enabled flags, as the live scale, with the tables built from it.
C23_DisconnectRestoresCommitted ==
    (lastOp = "process" /\ ~halted /\ atCommit # Nothing)
        => /\ backupScale = atCommit
           /\ ~cvConnected
                 => /\ scale = atCommit
                    /\ Tables = updateTuning(atCommit)

\* the cable was seen on the default scale and taught it one step, the
\* tritone file was committed under the cable, and the cable is pulled
C23_Witness ==
    /\ lastOp = "process"
    /\ ~halted
    /\ ~cvConnected
    /\ cvInput = NoCable
    /\ prevInputVolts = <<0>>
    /\ atCommit = <<ScaleStep(600, TRUE), ScaleStep(1200, TRUE)>>
    /\ scale = atCommit
    /\ tuningName = "tritone.scl"

\* C24: when a tuning file fails to load on a module that has a live
\* scale and whose tuning name a reset has set to 12-EDO, the process()
\* call that follows returns and leaves the default scale of 12 equal
\* steps, all enabled, as the live scale, under the tuning name 12-EDO.
C24_ResetSurvivesFailedLoad ==
    [][(/\ lastOp = "pathSelected: TuningError"
        /\ tuningName = TWELVE_EDO
        /\ scale # <<>>
        /\ lastOp' = "process")
          => /\ ~halted'
             /\ scale' = DefaultScale
             /\ tuningName' = TWELVE_EDO]_vars

\* C25: when the statements of onReset() on the UI thread interleave with
\* those of process() on the engine thread, the live scale is never a part
\* of a staged scale (it is empty, as constructed, or the whole default
\* scale), and no staged scale is left without its request: when both
\* calls have returned and newScale is not empty, tuningChangeRequested is
\* set, so that the next process() call commits it.
C25_NoTornCommitNoLostRequest ==
    /\ scale = <<>> \/ scale = DefaultScale
    /\ (pc = AtEase /\ ~halted /\ newScale # <<>>) => tuningChangeRequested

\* C26: whatever the length of the live scale, also above the MATRIX_SIZE
\* step lights of the panel, process() has set the brightness of no light
\* outside the step lights: the light of the step at each channel of the
\* pitch input is one of the lights 0 to MATRIX_SIZE - 1.
C26_LightIndexInRange ==
    (lastOp = "process" /\ ~halted)
        => /\ ~lightFault
           /\ ~error
                 => \A k \in 1..Len(pitchInput) :
                       scaleToLightIdx(Self,
                          getEnabledPitch(Self, pitchInput[k]).scaleIndex)
                             \in 0..(MATRIX_SIZE - 1)
====
